---------------------------- MODULE Spec2Model ----------------------------
(***************************************************************************)
(* Model of blockImageGenerator (src/main.py): the color collector         *)
(* (analyze_colors), the palette assigner (create_color_map), the palette  *)
(* listing (generate_palette_file) and the grid encoder                    *)
(* (image_to_block_string, driven by generate_java_file).                  *)
(*                                                                         *)
(* A color is a tuple <<r, g, b>>, a pixel a tuple <<r, g, b, a>>, a       *)
(* character a one-character string and a text a sequence of characters.   *)
(***************************************************************************)
EXTENDS Integers, Sequences, FiniteSets, TLC

VARIABLES pc, image_files, all_unique_colors, iter_order, color_to_char_map,
          char_to_color_map, pool_warnings, palette_file, layout, java_file,
          unmapped_warnings, error_log, rerun_order, rerun_result

vars == <<pc, image_files, all_unique_colors, iter_order, color_to_char_map,
          char_to_color_map, pool_warnings, palette_file, layout, java_file,
          unmapped_warnings, error_log, rerun_order, rerun_result>>

(***************************************************************************)
(* Characters and their code points (Python compares strings by code       *)
(* point: ' ' < digits < '?' < upper case < lower case).                   *)
(***************************************************************************)
Upper == <<"A", "B", "C", "D", "E", "F", "G", "H", "I", "J", "K", "L", "M",
           "N", "O", "P", "Q", "R", "S", "T", "U", "V", "W", "X", "Y", "Z">>

Lower == <<"a", "b", "c", "d", "e", "f", "g", "h", "i", "j", "k", "l", "m",
           "n", "o", "p", "q", "r", "s", "t", "u", "v", "w", "x", "y", "z">>

Digits == <<"0", "1", "2", "3", "4", "5", "6", "7", "8", "9">>

Range(s) == {s[i] : i \in DOMAIN s}

IndexOf(s, c) == CHOOSE i \in DOMAIN s : s[i] = c

Ord(c) ==
    IF c \in Range(Upper) THEN 64 + IndexOf(Upper, c)
    ELSE IF c \in Range(Lower) THEN 96 + IndexOf(Lower, c)
    ELSE IF c \in Range(Digits) THEN 47 + IndexOf(Digits, c)
    ELSE IF c = "?" THEN 63
    ELSE IF c = " " THEN 32
    ELSE IF c = "\n" THEN 10
    ELSE 34

EmptyMap == [x \in {} |-> x]

Put(m, k, v) == [x \in (DOMAIN m) \cup {k} |-> IF x = k THEN v ELSE m[x]]

(***************************************************************************)
(* Configuration.                                                          *)
(***************************************************************************)
DEFAULT_PALETTE_JAVA ==
    << <<"R", <<255, 0, 0>> >>,     <<"r", <<192, 0, 0>> >>,
       <<"G", <<0, 255, 0>> >>,     <<"g", <<0, 192, 0>> >>,
       <<"B", <<0, 0, 255>> >>,     <<"b", <<0, 0, 192>> >>,
       <<"Y", <<255, 255, 0>> >>,   <<"y", <<192, 192, 0>> >>,
       <<"P", <<255, 175, 175>> >>, <<"p", <<192, 131, 131>> >>,
       <<"C", <<0, 255, 255>> >>,   <<"c", <<0, 192, 192>> >>,
       <<"M", <<255, 0, 255>> >>,   <<"m", <<192, 0, 192>> >>,
       <<"O", <<255, 200, 0>> >>,   <<"o", <<192, 150, 0>> >>,
       <<"W", <<255, 255, 255>> >>, <<"L", <<0, 0, 0>> >> >>

DefaultChars == {DEFAULT_PALETTE_JAVA[i][1] : i \in DOMAIN DEFAULT_PALETTE_JAVA}

DefaultColors == {DEFAULT_PALETTE_JAVA[i][2] : i \in DOMAIN DEFAULT_PALETTE_JAVA}

DefaultRgb(d) ==
    DEFAULT_PALETTE_JAVA[CHOOSE i \in DOMAIN DEFAULT_PALETTE_JAVA :
                             DEFAULT_PALETTE_JAVA[i][1] = d][2]

NotDefaultKey(c) == c \notin DefaultChars

AVAILABLE_CHARS_Unfiltered == Upper \o Lower \o Digits

AVAILABLE_CHARS ==
    SelectSeq(Upper, NotDefaultKey) \o SelectSeq(Lower, NotDefaultKey) \o Digits

(***************************************************************************)
(* Python's tuple order on colors and sorted().                            *)
(***************************************************************************)
ColorLess(p, q) ==
    \/ p[1] < q[1]
    \/ p[1] = q[1] /\ p[2] < q[2]
    \/ p[1] = q[1] /\ p[2] = q[2] /\ p[3] < q[3]

MinColor(S) == CHOOSE p \in S : \A q \in S \ {p} : ColorLess(p, q)

RECURSIVE SortedColors(_)
SortedColors(S) ==
    IF S = {} THEN <<>>
    ELSE LET m == MinColor(S) IN <<m>> \o SortedColors(S \ {m})

RECURSIVE RemoveFirst(_, _)
RemoveFirst(s, e) ==
    IF s = <<>> THEN <<>>
    ELSE IF Head(s) = e THEN Tail(s)
    ELSE <<Head(s)>> \o RemoveFirst(Tail(s), e)

(***************************************************************************)
(* create_color_map.  `order` is list(unique_colors): the set in the       *)
(* iteration order of the run.                                             *)
(***************************************************************************)
ColorEq_RedOnly(rgb, default_rgb) == rgb[1] = default_rgb[1]

ColorEq(rgb, default_rgb) == rgb = default_rgb

\* The first default entry, in dict order, that equals rgb and whose
\* character is still free; 0 when there is none.
DefaultMatch(rgb, used) ==
    LET hits == {i \in DOMAIN DEFAULT_PALETTE_JAVA :
                    /\ ColorEq(rgb, DEFAULT_PALETTE_JAVA[i][2])
                    /\ DEFAULT_PALETTE_JAVA[i][1] \notin used}
    IN IF hits = {} THEN 0
       ELSE CHOOSE i \in hits : \A j \in hits : i <= j

MapState0(order) ==
    [color_to_char      |-> EmptyMap,
     char_to_color      |-> EmptyMap,
     char_pool          |-> AVAILABLE_CHARS,
     used_default_chars |-> {},
     unique_colors      |-> Range(order),
     colors_to_process  |-> order,
     warnings           |-> 0]

AssignDefault(st, rgb, i) ==
    LET char == DEFAULT_PALETTE_JAVA[i][1] IN
    [st EXCEPT !.color_to_char      = Put(@, rgb, char),
               !.char_to_color      = Put(@, char, rgb),
               !.used_default_chars = @ \cup {char},
               !.unique_colors      = @ \ {rgb},
               !.colors_to_process  = RemoveFirst(@, rgb)]

RECURSIVE DefaultPass(_, _, _)
DefaultPass(copy, n, st) ==
    IF n > Len(copy) THEN st
    ELSE LET rgb == copy[n]
             i   == DefaultMatch(rgb, st.used_default_chars)
         IN DefaultPass(copy, n + 1,
                        IF i = 0 THEN st ELSE AssignDefault(st, rgb, i))

RemainingOrder_Unsorted(st) == st.colors_to_process

RemainingOrder(st) == SortedColors(st.unique_colors)

OverflowAssign_LastWins(st, color) ==
    [st EXCEPT !.warnings      = @ + 1,
               !.color_to_char = IF color \in DOMAIN @ THEN @
                                 ELSE Put(@, color, "?"),
               !.char_to_color = IF color \in DOMAIN st.color_to_char THEN @
                                 ELSE Put(@, "?", color)]

OverflowAssign(st, color) ==
    [st EXCEPT !.warnings      = @ + 1,
               !.color_to_char = IF color \in DOMAIN @ THEN @
                                 ELSE Put(@, color, "?"),
               !.char_to_color = IF color \in DOMAIN st.color_to_char
                                    \/ "?" \in DOMAIN @
                                 THEN @
                                 ELSE Put(@, "?", color)]

PoolAssign_PopRight(st, color) ==
    LET next_char == st.char_pool[Len(st.char_pool)] IN
    [st EXCEPT !.char_pool     = SubSeq(@, 1, Len(@) - 1),
               !.color_to_char = Put(@, color, next_char),
               !.char_to_color = Put(@, next_char, color)]

PoolAssign(st, color) ==
    LET next_char == Head(st.char_pool) IN
    [st EXCEPT !.char_pool     = Tail(@),
               !.color_to_char = Put(@, color, next_char),
               !.char_to_color = Put(@, next_char, color)]

RECURSIVE PoolPass(_, _, _)
PoolPass(todo, n, st) ==
    IF n > Len(todo) THEN st
    ELSE PoolPass(todo, n + 1,
                  IF st.char_pool = <<>> THEN OverflowAssign(st, todo[n])
                  ELSE PoolAssign(st, todo[n]))

create_color_map(order) ==
    LET d == DefaultPass(order, 1, MapState0(order))
        f == PoolPass(RemainingOrder(d), 1, d)
    IN [color_to_char |-> f.color_to_char,
        char_to_color |-> f.char_to_color,
        warnings      |-> f.warnings,
        space_warning |-> " " \in DOMAIN f.char_to_color,
        mapped        |-> Cardinality(DOMAIN f.color_to_char)]


(***************************************************************************)
(* generate_palette_file: the lines written to ColorPalettes.txt.          *)
(***************************************************************************)
CharLess(c, d) == Ord(c) < Ord(d)

RECURSIVE SortedChars(_)
SortedChars(S) ==
    IF S = {} THEN <<>>
    ELSE LET m == CHOOSE c \in S : \A d \in S \ {c} : CharLess(c, d)
         IN <<m>> \o SortedChars(S \ {m})

\* sorted(char_to_color_map.items()): the keys are distinct, so the order
\* of the items is the order of their characters.
SortedItems(m) == SortedChars(DOMAIN m)

is_default_Never(char) == FALSE

is_default(char) == char \in DefaultChars

java_char(char) ==
    IF char = "\\" THEN <<"'", "\\", "\\", "'">>
    ELSE IF char = "'" THEN <<"'", "\\", "'", "'">>
    ELSE <<"'", char, "'">>

PaletteHeader ==
    [kind |-> "comment", java_char |-> <<>>, r |-> 0, g |-> 0, b |-> 0]

PaletteLine(char, color) ==
    [kind |-> "update", java_char |-> java_char(char),
     r |-> color[1], g |-> color[2], b |-> color[3]]

RECURSIVE PaletteLines(_, _, _)
PaletteLines(m, chars, n) ==
    IF n > Len(chars) THEN <<>>
    ELSE (IF is_default(chars[n]) THEN <<>>
          ELSE <<PaletteLine(chars[n], m[chars[n]])>>)
         \o PaletteLines(m, chars, n + 1)

generate_palette_file(char_to_color) ==
    <<PaletteHeader>> \o PaletteLines(char_to_color, SortedItems(char_to_color), 1)

(***************************************************************************)
(* Inputs of the palette assigner: color sets around the default palette   *)
(* and around the size of the character pool, and the orders in which a    *)
(* set may be iterated.                                                    *)
(***************************************************************************)
MaxRot == 2

PoolSize == Len(AVAILABLE_CHARS)

Filler(n) == {<<i, 100, 100>> : i \in 1..n}

SmallColors ==
    {<<255, 0, 0>>, <<0, 0, 255>>,        \* the defaults 'R' and 'B'
     <<254, 0, 0>>, <<0, 0, 254>>,        \* off by one from them
     <<10, 20, 30>>}

InputSets ==
    {Filler(n) \cup X : n \in {0, PoolSize - 1, PoolSize}, X \in SUBSET SmallColors}

Reverse(s) == [i \in DOMAIN s |-> s[Len(s) + 1 - i]]

Rotate(s, k) ==
    IF k >= Len(s) THEN s ELSE SubSeq(s, k + 1, Len(s)) \o SubSeq(s, 1, k)

Orders(S) ==
    LET asc == SortedColors(S)
    IN {asc, Reverse(asc)} \cup {Rotate(asc, k) : k \in 1..MaxRot}

NoResult ==
    [color_to_char |-> EmptyMap, char_to_color |-> EmptyMap, warnings |-> 0,
     space_warning |-> FALSE, mapped |-> 0]

(***************************************************************************)
(* SpecMap: create_color_map run twice on one color set, iterated in two   *)
(* orders, then generate_palette_file on the first run's inverse map.      *)
(***************************************************************************)
InitMap ==
    /\ pc = "run1"
    /\ all_unique_colors \in InputSets
    /\ iter_order \in Orders(all_unique_colors)
    /\ rerun_order \in Orders(all_unique_colors)
    /\ image_files = <<>>
    /\ color_to_char_map = EmptyMap
    /\ char_to_color_map = EmptyMap
    /\ pool_warnings = 0
    /\ palette_file = <<>>
    /\ layout = "none"
    /\ java_file = <<>>
    /\ unmapped_warnings = 0
    /\ error_log = {}
    /\ rerun_result = NoResult

MapFirstRun ==
    /\ pc = "run1"
    /\ \E res \in {create_color_map(iter_order)} :
         /\ color_to_char_map' = res.color_to_char
         /\ char_to_color_map' = res.char_to_color
         /\ pool_warnings' = res.warnings
    /\ pc' = "run2"
    /\ UNCHANGED <<image_files, all_unique_colors, iter_order, palette_file,
                   layout, java_file, unmapped_warnings, error_log,
                   rerun_order, rerun_result>>

MapSecondRun ==
    /\ pc = "run2"
    /\ rerun_result' = create_color_map(rerun_order)
    /\ pc' = "list"
    /\ UNCHANGED <<image_files, all_unique_colors, iter_order,
                   color_to_char_map, char_to_color_map, pool_warnings,
                   palette_file, layout, java_file, unmapped_warnings,
                   error_log, rerun_order>>

MapPalette ==
    /\ pc = "list"
    /\ palette_file' = generate_palette_file(char_to_color_map)
    /\ pc' = "end"
    /\ UNCHANGED <<image_files, all_unique_colors, iter_order,
                   color_to_char_map, char_to_color_map, pool_warnings,
                   layout, java_file, unmapped_warnings, error_log,
                   rerun_order, rerun_result>>

NextMap == MapFirstRun \/ MapSecondRun \/ MapPalette

SpecMap == InitMap /\ [][NextMap]_vars


(***************************************************************************)
(* analyze_colors.  A file is its decoded RGBA grid (a sequence of rows)   *)
(* and whether Image.open/convert succeed on it in the analysis pass and   *)
(* in the conversion pass ("both", "none", "first", "second").             *)
(***************************************************************************)
Decodes(file, pass) ==
    \/ file.decodes = "both"
    \/ file.decodes = "first" /\ pass = 1
    \/ file.decodes = "second" /\ pass = 2

Rgb(px) == <<px[1], px[2], px[3]>>

Alpha(px) == px[4]

HasColor_OpaqueOnly(px) == Alpha(px) = 255

HasColor(px) == Alpha(px) > 0

GridColors(grid) ==
    {Rgb(grid[y][x]) : <<x, y>> \in
        {q \in (1..Len(grid[1])) \X (1..Len(grid)) : HasColor(grid[q[2]][q[1]])}}

RECURSIVE analyze_colors_from(_, _, _)
analyze_colors_from(files, n, unique_colors) ==
    IF n > Len(files) THEN unique_colors
    ELSE analyze_colors_from(files, n + 1,
            IF Decodes(files[n], 1)
            THEN unique_colors \cup GridColors(files[n].grid)
            ELSE unique_colors)

analyze_colors(files) == analyze_colors_from(files, 1, {})

AnalyzeErrors(files) == {<<"analyze", n>> : n \in {i \in DOMAIN files : ~Decodes(files[i], 1)}}

(***************************************************************************)
(* image_to_block_string.                                                  *)
(***************************************************************************)
Quotes == <<"\"", "\"", "\"">>

ErrorString == Quotes \o <<"\n", "E", "r", "r", "o", "r", "\n">> \o Quotes

Lookup(color_map, rgb) == IF rgb \in DOMAIN color_map THEN color_map[rgb] ELSE ""

EncodePixel_IgnoreAlpha(px, color_map) ==
    LET char == Lookup(color_map, Rgb(px)) IN
    IF char # "" THEN char
    ELSE IF Alpha(px) = 0 THEN " " ELSE "?"

EncodePixel(px, color_map) ==
    IF Alpha(px) = 0 THEN " "
    ELSE LET char == Lookup(color_map, Rgb(px)) IN
         IF char # "" THEN char ELSE "?"

Unmapped(px, color_map) ==
    Alpha(px) # 0 /\ Lookup(color_map, Rgb(px)) = ""

EncodeRow(row, color_map) == [x \in DOMAIN row |-> EncodePixel(row[x], color_map)]

RowWarnings(row, color_map) ==
    Cardinality({x \in DOMAIN row : Unmapped(row[x], color_map)})

IsSpace(c) == c \in {" ", "\n"}

RECURSIVE lstrip(_)
lstrip(line) ==
    IF line # <<>> /\ IsSpace(Head(line)) THEN lstrip(Tail(line)) ELSE line

RECURSIVE TrimRight(_)
TrimRight(line) ==
    IF line # <<>> /\ IsSpace(line[Len(line)])
    THEN TrimRight(SubSeq(line, 1, Len(line) - 1))
    ELSE line

rstrip_Strip(line) == lstrip(TrimRight(line))

rstrip(line) == TrimRight(line)

RECURSIVE Join(_, _)
Join(lines, sep) ==
    IF lines = <<>> THEN <<>>
    ELSE IF Len(lines) = 1 THEN lines[1]
    ELSE lines[1] \o <<sep>> \o Join(Tail(lines), sep)

RECURSIVE SumSeq(_)
SumSeq(s) == IF s = <<>> THEN 0 ELSE Head(s) + SumSeq(Tail(s))

image_to_block_string(file, color_map) ==
    IF ~Decodes(file, 2)
    THEN [java_string |-> ErrorString, warnings |-> 0, failed |-> TRUE]
    ELSE LET block_lines   == [y \in DOMAIN file.grid |->
                                  EncodeRow(file.grid[y], color_map)]
             trimmed_lines == [y \in DOMAIN block_lines |-> rstrip(block_lines[y])]
         IN [java_string |-> Quotes \o <<"\n">> \o Join(trimmed_lines, "\n")
                                    \o <<"\n">> \o Quotes,
             warnings    |-> SumSeq([y \in DOMAIN file.grid |->
                                        RowWarnings(file.grid[y], color_map)]),
             failed      |-> FALSE]


(***************************************************************************)
(* generate_java_file.  The batch is sorted by file name, and the files    *)
(* are named a.png, b_1.png, c.png, d_1.png, ...: the file at an odd       *)
(* position has no prefix (category General), the one at an even position  *)
(* has its own one-letter category.  sorted() is stable and the groups are *)
(* filled in batch order, so a group keeps the batch order.                *)
(***************************************************************************)
Category(n) == IF n % 2 = 1 THEN "General" ELSE Upper[n]

CategoryLess(c, d) ==
    LET key(x) == IF x = "General" THEN 2 * Ord("G") + 1 ELSE 2 * Ord(x)
    IN key(c) < key(d)

RECURSIVE SortedCategories(_)
SortedCategories(S) ==
    IF S = {} THEN <<>>
    ELSE LET m == CHOOSE c \in S : \A d \in S \ {c} : CategoryLess(c, d)
         IN <<m>> \o SortedCategories(S \ {m})

GroupOf(files, grouping_mode, category) ==
    SelectSeq([n \in DOMAIN files |-> n],
              LAMBDA n : (IF grouping_mode = "grouped" THEN Category(n)
                          ELSE "General") = category)

JavaLine(kind, category, n, text) ==
    [kind |-> kind, category |-> category, file |-> n, text |-> text]

Entries(files, group, color_map) ==
    [k \in DOMAIN group |->
        JavaLine("entry", "", group[k],
                 image_to_block_string(files[group[k]], color_map).java_string)]

\* A group is written as a static class or as an enum; either way it holds
\* one entry per image of the group.
RECURSIVE Groups(_, _, _, _, _)
Groups(files, categories, color_map, group_output_type, k) ==
    IF k > Len(categories) THEN <<>>
    ELSE <<JavaLine(group_output_type, categories[k], 0, <<>>)>>
         \o Entries(files, GroupOf(files, "grouped", categories[k]), color_map)
         \o <<JavaLine("close", categories[k], 0, <<>>)>>
         \o Groups(files, categories, color_map, group_output_type, k + 1)

generate_java_file(files, color_map, grouping_mode, group_output_type) ==
    <<JavaLine("header", "", 0, <<>>)>>
    \o (IF grouping_mode = "flat"
        THEN Entries(files, GroupOf(files, "flat", "General"), color_map)
        ELSE Groups(files,
                    SortedCategories({Category(n) : n \in DOMAIN files}),
                    color_map, group_output_type, 1))
    \o <<JavaLine("footer", "", 0, <<>>)>>

ConvertWarnings(files, color_map) ==
    SumSeq([n \in DOMAIN files |->
               image_to_block_string(files[n], color_map).warnings])

ConvertErrors(files) ==
    {<<"convert", n>> : n \in {i \in DOMAIN files : ~Decodes(files[i], 2)}}

(***************************************************************************)
(* The batches: one image of at most MaxArea pixels over PixelKinds; every *)
(* sequence of images whose pixels add up to at most MaxPixels, with at    *)
(* most MaxFaulty files that fail to decode in a pass; and the sprite      *)
(* sheet, one row holding as many distinct non-default colors as the pool  *)
(* has characters, alone or followed by a one-pixel image.                 *)
(***************************************************************************)
MaxArea == 6

MaxPixels == 3

MaxFaulty == 1

PixelKinds == {<<255, 0, 0, 255>>, <<255, 0, 0, 0>>, <<254, 0, 0, 128>>}

Grids(w, h) == [1..h -> [1..w -> PixelKinds]]

Images(area) ==
    UNION {Grids(q[1], q[2]) :
              q \in {r \in (1..area) \X (1..area) : r[1] * r[2] <= area}}

Area(grid) == Len(grid) * Len(grid[1])

RECURSIVE GridBatches(_)
GridBatches(budget) ==
    {<<>>} \cup
    UNION {{<<grid>> \o rest : rest \in GridBatches(budget - Area(grid))} :
              grid \in Images(budget)}

Sheet == <<[x \in 1..PoolSize |-> <<x, 100, 100, 255>>]>>

Faults(n) ==
    {f \in [1..n -> {"both", "none", "first", "second"}] :
        Cardinality({i \in 1..n : f[i] # "both"}) <= MaxFaulty}

FilesOf(grids) ==
    {[n \in DOMAIN grids |-> [grid |-> grids[n], decodes |-> f[n]]] :
        f \in Faults(Len(grids))}

Batches ==
    {<<[grid |-> grid, decodes |-> "both"]>> : grid \in Images(MaxArea)}
    \cup UNION {FilesOf(grids) :
                   grids \in GridBatches(MaxPixels)
                             \cup {<<Sheet>> \o b : b \in GridBatches(1)}}

(***************************************************************************)
(* Spec: the main program.                                                 *)
(***************************************************************************)
Init ==
    /\ pc = "start"
    /\ image_files \in Batches
    /\ all_unique_colors = {}
    /\ iter_order = <<>>
    /\ color_to_char_map = EmptyMap
    /\ char_to_color_map = EmptyMap
    /\ pool_warnings = 0
    /\ palette_file = <<>>
    /\ layout = "none"
    /\ java_file = <<>>
    /\ unmapped_warnings = 0
    /\ error_log = {}
    /\ rerun_order = <<>>
    /\ rerun_result = NoResult

NoImages ==
    /\ pc = "start"
    /\ image_files = <<>>
    /\ pc' = "done"
    /\ UNCHANGED <<image_files, all_unique_colors, iter_order,
                   color_to_char_map, char_to_color_map, pool_warnings,
                   palette_file, layout, java_file, unmapped_warnings,
                   error_log, rerun_order, rerun_result>>

AnalyzeColors ==
    /\ pc = "start"
    /\ image_files # <<>>
    /\ all_unique_colors' = analyze_colors(image_files)
    /\ error_log' = error_log \cup AnalyzeErrors(image_files)
    /\ pc' = "map"
    /\ UNCHANGED <<image_files, iter_order, color_to_char_map,
                   char_to_color_map, pool_warnings, palette_file, layout,
                   java_file, unmapped_warnings, rerun_order, rerun_result>>

CreateColorMap ==
    /\ pc = "map"
    /\ \E order \in Orders(all_unique_colors) :
         /\ iter_order' = order
         /\ \E res \in {create_color_map(order)} :
              /\ color_to_char_map' = res.color_to_char
              /\ char_to_color_map' = res.char_to_color
              /\ pool_warnings' = res.warnings
    /\ pc' = "palette"
    /\ UNCHANGED <<image_files, all_unique_colors, palette_file, layout,
                   java_file, unmapped_warnings, error_log, rerun_order,
                   rerun_result>>

GeneratePaletteFile ==
    /\ pc = "palette"
    /\ palette_file' = generate_palette_file(char_to_color_map)
    /\ pc' = "prompt"
    /\ UNCHANGED <<image_files, all_unique_colors, iter_order,
                   color_to_char_map, char_to_color_map, pool_warnings,
                   layout, java_file, unmapped_warnings, error_log,
                   rerun_order, rerun_result>>

\* The two prompts: "flat", or grouped as "class" or as "enum".
ChooseLayout ==
    /\ pc = "prompt"
    /\ layout' \in {"flat", "class", "enum"}
    /\ pc' = "java"
    /\ UNCHANGED <<image_files, all_unique_colors, iter_order,
                   color_to_char_map, char_to_color_map, pool_warnings,
                   palette_file, java_file, unmapped_warnings, error_log,
                   rerun_order, rerun_result>>

GenerateJavaFile ==
    /\ pc = "java"
    /\ java_file' = generate_java_file(image_files, color_to_char_map,
                        IF layout = "flat" THEN "flat" ELSE "grouped",
                        IF layout = "flat" THEN "none" ELSE layout)
    /\ unmapped_warnings' = ConvertWarnings(image_files, color_to_char_map)
    /\ error_log' = error_log \cup ConvertErrors(image_files)
    /\ pc' = "done"
    /\ UNCHANGED <<image_files, all_unique_colors, iter_order,
                   color_to_char_map, char_to_color_map, pool_warnings,
                   palette_file, layout, rerun_order, rerun_result>>

Next ==
    \/ NoImages
    \/ AnalyzeColors
    \/ CreateColorMap
    \/ GeneratePaletteFile
    \/ ChooseLayout
    \/ GenerateJavaFile

Spec == Init /\ [][Next]_vars


(***************************************************************************)
(* Properties of the palette assigner and of the palette listing           *)
(* (checked under SpecMap).                                                *)
(***************************************************************************)
Assigned == pc \in {"run2", "list", "end"}

NonDefaultColors == all_unique_colors \ DefaultColors

SortedNonDefault == SortedColors(NonDefaultColors)

OverflowColors == {k \in DOMAIN color_to_char_map : color_to_char_map[k] = "?"}

\* C1 as claimed: every color assigned a character c, the colors assigned
\* '?' after the pool ran out included, is what the inverse map holds for c.
C1_RoundTripEveryColor ==
    Assigned =>
        \A k \in DOMAIN color_to_char_map :
            /\ color_to_char_map[k] \in DOMAIN char_to_color_map
            /\ char_to_color_map[color_to_char_map[k]] = k

\* C1 (amended): every color assigned a character c other than '?' is what
\* the inverse map holds for c; of the colors assigned '?', the inverse map
\* holds for '?' the first one in sorted order, and only that one.
C1_RoundTrip ==
    Assigned =>
        /\ \A k \in DOMAIN color_to_char_map :
               /\ color_to_char_map[k] \in DOMAIN char_to_color_map
               /\ color_to_char_map[k] # "?" =>
                      char_to_color_map[color_to_char_map[k]] = k
        /\ OverflowColors # {} =>
               /\ char_to_color_map["?"] \in OverflowColors
               /\ \A k \in OverflowColors \ {char_to_color_map["?"]} :
                      ColorLess(char_to_color_map["?"], k)

C1_Witness ==
    /\ pc = "end"
    /\ Cardinality(OverflowColors) >= 2
    /\ \E k \in DOMAIN color_to_char_map : color_to_char_map[k] \in DefaultChars

\* C2: when at most len(AVAILABLE_CHARS) input colors match no default RGB,
\* no two distinct colors of the input set are assigned the same character.
C2_Injective ==
    Assigned /\ Cardinality(NonDefaultColors) <= Len(AVAILABLE_CHARS) =>
        /\ DOMAIN color_to_char_map = all_unique_colors
        /\ \A k1, k2 \in all_unique_colors :
               k1 # k2 => color_to_char_map[k1] # color_to_char_map[k2]

C2_Witness ==
    /\ pc = "end"
    /\ Cardinality(NonDefaultColors) = Len(AVAILABLE_CHARS)
    /\ Cardinality(all_unique_colors \cap DefaultColors) >= 2

\* C3: in whatever order the set is iterated, a color is assigned a default
\* palette character d if and only if it equals DEFAULT_PALETTE_JAVA[d].
C3_DefaultIffExactMatch ==
    Assigned =>
        \A k \in all_unique_colors :
            /\ k \in DOMAIN color_to_char_map
            /\ \A d \in DefaultChars :
                   color_to_char_map[k] = d <=> k = DefaultRgb(d)

C3_Witness ==
    /\ pc = "end"
    /\ {<<255, 0, 0>>, <<254, 0, 0>>, <<0, 0, 255>>, <<0, 0, 254>>}
           \subseteq all_unique_colors
    /\ iter_order # SortedColors(all_unique_colors)
    /\ OverflowColors # {}

\* C4: two runs on the same color set, iterated in two orders, return the
\* same forward map and the same inverse map.
C4_Deterministic ==
    pc \in {"list", "end"} =>
        /\ rerun_result.color_to_char = color_to_char_map
        /\ rerun_result.char_to_color = char_to_color_map

C4_Witness ==
    /\ pc = "end"
    /\ iter_order # rerun_order
    /\ Cardinality(OverflowColors) >= 2
    /\ Cardinality(all_unique_colors \cap DefaultColors) >= 2

\* C5: the i-th non-default color in sorted order gets the i-th character
\* of AVAILABLE_CHARS, every later one gets '?' with one warning each, and
\* every input color is a key of the forward map.
C5_PoolExhaustion ==
    Assigned =>
        /\ DOMAIN color_to_char_map = all_unique_colors
        /\ \A i \in DOMAIN SortedNonDefault :
               color_to_char_map[SortedNonDefault[i]] =
                   IF i <= Len(AVAILABLE_CHARS) THEN AVAILABLE_CHARS[i] ELSE "?"
        /\ pool_warnings =
               IF Len(SortedNonDefault) > Len(AVAILABLE_CHARS)
               THEN Len(SortedNonDefault) - Len(AVAILABLE_CHARS) ELSE 0

C5_Witness ==
    /\ pc = "end"
    /\ all_unique_colors \cap DefaultColors = {}
    /\ Len(SortedNonDefault) = Len(AVAILABLE_CHARS) + 1
    /\ OverflowColors = {SortedNonDefault[Len(SortedNonDefault)]}
    /\ pool_warnings = 1

UpdateLines == SubSeq(palette_file, 2, Len(palette_file))

LineChar(line) == line.java_char[2]

Lists(line, char, color) ==
    /\ line.kind = "update"
    /\ line.java_char = <<"'", char, "'">>
    /\ <<line.r, line.g, line.b>> = color

\* C6 as claimed: one line for every assignment of the forward map whose
\* character is not a default character, none for a default character, in
\* ascending order of character.
C6_EveryForwardAssignmentListed ==
    pc = "end" =>
        /\ \A k \in DOMAIN color_to_char_map :
               color_to_char_map[k] \notin DefaultChars =>
                   \E i \in DOMAIN UpdateLines :
                       Lists(UpdateLines[i], color_to_char_map[k], k)
        /\ \A i \in DOMAIN UpdateLines : LineChar(UpdateLines[i]) \notin DefaultChars
        /\ \A i, j \in DOMAIN UpdateLines :
               i < j => Ord(LineChar(UpdateLines[i])) < Ord(LineChar(UpdateLines[j]))

\* C6 (amended): one line for every character of the inverse map that is
\* not a default character, with the color the inverse map holds for it,
\* none for a default character, in ascending order of character; so every
\* assignment of the forward map to a non-default character is listed,
\* except those of the colors assigned '?' after the first.
C6_PaletteListing ==
    pc = "end" =>
        /\ palette_file[1] = PaletteHeader
        /\ \A c \in DOMAIN char_to_color_map \ DefaultChars :
               \E i \in DOMAIN UpdateLines :
                   Lists(UpdateLines[i], c, char_to_color_map[c])
        /\ \A i \in DOMAIN UpdateLines :
               /\ LineChar(UpdateLines[i]) \in DOMAIN char_to_color_map \ DefaultChars
               /\ Lists(UpdateLines[i], LineChar(UpdateLines[i]),
                        char_to_color_map[LineChar(UpdateLines[i])])
        /\ \A i, j \in DOMAIN UpdateLines :
               i < j => Ord(LineChar(UpdateLines[i])) < Ord(LineChar(UpdateLines[j]))
        /\ \A k \in DOMAIN color_to_char_map :
               color_to_char_map[k] \notin DefaultChars \cup {"?"} =>
                   \E i \in DOMAIN UpdateLines :
                       Lists(UpdateLines[i], color_to_char_map[k], k)

C6_Witness ==
    /\ pc = "end"
    /\ Cardinality(OverflowColors) >= 2
    /\ \E k \in DOMAIN color_to_char_map : color_to_char_map[k] \in DefaultChars
    /\ \E i \in DOMAIN UpdateLines : LineChar(UpdateLines[i]) = "?"
    /\ \E i \in DOMAIN UpdateLines : LineChar(UpdateLines[i]) = "9"
    /\ Len(UpdateLines) = Len(AVAILABLE_CHARS) + 1


(***************************************************************************)
(* Properties of the batch run (checked under Spec).  The rows of an       *)
(* encoded image are read back from the emitted text block.                *)
(***************************************************************************)
RECURSIVE Split(_, _)
Split(text, sep) ==
    IF \A i \in DOMAIN text : text[i] # sep THEN <<text>>
    ELSE LET i == CHOOSE j \in DOMAIN text :
                      text[j] = sep /\ \A k \in 1..(j - 1) : text[k] # sep
         IN <<SubSeq(text, 1, i - 1)>> \o Split(SubSeq(text, i + 1, Len(text)), sep)

RowsOf(text) == Split(SubSeq(text, 5, Len(text) - 4), "\n")

EntriesOf(n) ==
    {k \in DOMAIN java_file : java_file[k].kind = "entry" /\ java_file[k].file = n}

TextOf(n) == java_file[CHOOSE k \in EntriesOf(n) : TRUE].text

Finished == pc = "done" /\ image_files # <<>>

Decoded(pass) == {n \in DOMAIN image_files : Decodes(image_files[n], pass)}

Positions(n) ==
    (1..Len(image_files[n].grid[1])) \X (1..Len(image_files[n].grid))

PixelAt(n, q) == image_files[n].grid[q[2]][q[1]]

\* The positions of file n that are left in its emitted rows.
Kept(n) ==
    {q \in Positions(n) :
        q[2] <= Len(RowsOf(TextOf(n))) /\ q[1] <= Len(RowsOf(TextOf(n))[q[2]])}

CharAt(n, q) == RowsOf(TextOf(n))[q[2]][q[1]]

VisibleColors(n) ==
    {<<PixelAt(n, q)[1], PixelAt(n, q)[2], PixelAt(n, q)[3]>> :
        q \in {r \in Positions(n) : PixelAt(n, r)[4] > 0}}

\* C7: a file that fails to decode adds no color to the set, the other
\* files are still scanned and encoded, and no encoded image entry is
\* emitted for the failing file.
C7_FailedFileSkipped ==
    /\ pc # "start" /\ image_files # <<>> =>
           all_unique_colors = UNION {VisibleColors(n) : n \in Decoded(1)}
    /\ Finished =>
           /\ \A n \in Decoded(2) :
                  Cardinality(EntriesOf(n)) = 1 /\ TextOf(n) # ErrorString
           /\ \A n \in DOMAIN image_files \ Decoded(2) : EntriesOf(n) = {}

\* C8: the collected set is exactly the RGB triples of the pixels with
\* alpha > 0, and a pixel with alpha 0 is encoded as the space character,
\* also when its RGB is a key of the color map.
C8_Transparency ==
    /\ pc # "start" /\ image_files # <<>> =>
           all_unique_colors = UNION {VisibleColors(n) : n \in Decoded(1)}
    /\ Finished =>
           \A n \in Decoded(2) : \A q \in Kept(n) :
               PixelAt(n, q)[4] = 0 => CharAt(n, q) = " "

C8_Witness ==
    /\ Finished
    /\ <<254, 0, 0>> \in all_unique_colors
    /\ \E n \in Decoded(2) : \E q \in Kept(n) :
           /\ PixelAt(n, q)[4] = 0
           /\ Rgb(PixelAt(n, q)) \in DOMAIN color_to_char_map

\* The last position of a row that holds a pixel with alpha > 0 (0 if none).
LastVisible(row) ==
    LET vis == {x \in DOMAIN row : row[x][4] # 0}
    IN IF vis = {} THEN 0 ELSE CHOOSE x \in vis : \A z \in vis : z <= x

PixelChar(px) ==
    IF px[4] = 0 THEN " "
    ELSE IF Rgb(px) \in DOMAIN color_to_char_map
         THEN color_to_char_map[Rgb(px)] ELSE "?"

\* C9: the output has one row per image row, in image order; each is the
\* row's character sequence cut after its last non-blank position, so that
\* leading and interior blanks stay, a row never ends in a blank, a row
\* of blanks becomes the empty row, and no row is padded.
C9_TrimTrailingBlanks ==
    Finished =>
        \A n \in Decoded(2) :
            LET grid == image_files[n].grid
                rows == RowsOf(TextOf(n))
            IN /\ Len(rows) = Len(grid)
               /\ \A y \in DOMAIN grid :
                      /\ Len(rows[y]) = LastVisible(grid[y])
                      /\ \A x \in DOMAIN rows[y] : rows[y][x] = PixelChar(grid[y][x])
                      /\ rows[y] # <<>> => rows[y][Len(rows[y])] # " "

C9_Witness ==
    /\ Finished
    /\ \E n \in Decoded(2) : \E y \in DOMAIN image_files[n].grid :
           LET row == image_files[n].grid[y] IN
           /\ Len(row) >= 3
           /\ row[1][4] = 0 /\ row[2][4] # 0 /\ row[Len(row)][4] = 0
           /\ RowsOf(TextOf(n))[y] = <<" ", PixelChar(row[2])>>
    /\ \E n \in Decoded(2) : \E y \in DOMAIN image_files[n].grid :
           /\ LastVisible(image_files[n].grid[y]) = 0
           /\ RowsOf(TextOf(n))[y] = <<>>

\* C10: when every file decodes alike in both passes and at most
\* len(AVAILABLE_CHARS) distinct non-default colors occur, no pixel is
\* unmapped, no '?' is emitted, and each kept character is the space iff
\* the pixel's alpha is 0 and otherwise resolves, through the inverse map,
\* to the pixel's RGB.
C10_EndToEnd ==
    /\ Finished
    /\ \A n \in DOMAIN image_files : image_files[n].decodes \in {"both", "none"}
    /\ Cardinality(NonDefaultColors) <= Len(AVAILABLE_CHARS)
    => /\ unmapped_warnings = 0
       /\ \A n \in DOMAIN image_files : "?" \notin Range(TextOf(n))
       /\ \A n \in Decoded(2) : \A q \in Kept(n) :
              /\ CharAt(n, q) = " " <=> PixelAt(n, q)[4] = 0
              /\ PixelAt(n, q)[4] # 0 =>
                     /\ CharAt(n, q) \in DOMAIN char_to_color_map
                     /\ char_to_color_map[CharAt(n, q)] = Rgb(PixelAt(n, q))

C10_Witness ==
    /\ Finished
    /\ \A n \in DOMAIN image_files : image_files[n].decodes = "both"
    /\ Cardinality(NonDefaultColors) = Len(AVAILABLE_CHARS)
    /\ <<255, 0, 0>> \in all_unique_colors
    /\ Len(image_files) = 2

=============================================================================
